---- MODULE Spec2Model ----
(***************************************************************************)
(* Post approval and publishing workflow of doors22-backend:               *)
(*   ApprovalService (approvePost / rejectPost / editPost /               *)
(*   getApprovedPosts), the posting cron job (run / postImmediately),      *)
(*   MetaService.postToBothPlatforms and the post controller.              *)
(* Every handler is split at its awaits (store read, store write,          *)
(* platform calls), which are the only points where another invocation     *)
(* can run.  Time is counted in whole hours since 00:00 UTC of day 0.      *)
(***************************************************************************)
EXTENDS Integers, Sequences, FiniteSets, TLC

VARIABLES posts, inv, now, hostZone, configured, delivered,
          interactions, areply, replies, media

vars == <<posts, inv, now, hostZone, configured, delivered,
          interactions, areply, replies, media>>

\* the interactions collection, the auto-reply runs and the replies the
\* platforms accepted
replyVars == <<interactions, areply, replies>>

(* ------------------------------ bounds -------------------------------- *)

\* longest approvalHistory an operation is started on
MaxHist == 2
\* longest editHistory an edit is started on
MaxEdits == 1
\* last hour the clock reaches
MaxNow == 18
\* deliveries per post and platform after which no new invocation starts
MaxDeliveries == 2
\* accepted replies per interaction after which no new auto-reply run starts
MaxReplies == 2
\* last timestamp a webhook delivery stores
MaxStamp == 5
\* largest maxAttempts waitForMediaReady is called with
MaxAttempts == 4

PostIds == {"p1"}
NoSuchPost == "missing"
Slots == {1, 2}
InteractionIds == {"x1", "x2", "x3"}
NoSuchInteraction == "none"

(* --------------------------- program constants ------------------------ *)

\* scheduled.setUTCHours(17, 0, 0, 0)
PublishHour == 17
HoursPerDay == 24
\* const { limit = 50, beforeTime } = options
DefaultLimit == 50
\* scheduledPostTime: null / postedAt never written
NullTime == -1
\* .limit(20) of the auto-reply query
ReplyLimit == 20

(* ------------------------------ Date ---------------------------------- *)

\* The host's local zone is an input of the environment: either a fixed
\* offset, or a zone that moves its clock forward one hour (offset -5 to -4)
\* at 07:00 UTC of day 1.
HostZones == {"UTC", "DST"}

HostOffset(z, t) == IF z = "UTC" THEN 0 ELSE IF t < HoursPerDay + 7 THEN 0 - 5 ELSE 0 - 4

\* LocalTime(t) of ECMAScript
LocalTime(z, t) == t + HostOffset(z, t)

\* UTC(t) of ECMAScript: the instant whose local time is l; a skipped local
\* time is read with the offset in force before the transition
UTCOf(z, l) ==
    LET c == {t \in (l - 14)..(l + 14) : LocalTime(z, t) = l}
    IN  IF c = {} THEN l + 5 ELSE CHOOSE t \in c : \A u \in c : t <= u

\* now.getUTCHours()
GetUTCHours(t) == t % HoursPerDay

\* scheduled.setUTCHours(17, 0, 0, 0)
SetUTCHours(t, h) == (t \div HoursPerDay) * HoursPerDay + h

\* scheduled.setDate(scheduled.getDate() + 1): one calendar day later in the
\* host's LOCAL time, the local time of day kept
SetDatePlusOne(z, t) == UTCOf(z, LocalTime(z, t) + HoursPerDay)

\* the default of approvePost / editPost: 17:00 UTC today, moved one day
\* when the UTC hour is already >= 17
DefaultSchedule(z, t) ==
    IF GetUTCHours(t) >= PublishHour
    THEN SetDatePlusOne(z, SetUTCHours(t, PublishHour))
    ELSE SetUTCHours(t, PublishHour)

(* ------------------------------ posts --------------------------------- *)

UnsetPlatforms == [instagram |-> "unset", facebook |-> "unset"]

\* `${caption}\n\n${hashtags.join(' ')}`: the text made of a caption and
\* hashtags
PostText(caption, hashtags) == <<caption>> \o hashtags

\* the document generateForCategory stores (workflow fields only);
\* postingErrors <<>> stands for unset and for null
NewPost ==
    [status            |-> "pending",
     approvalHistory   |-> <<>>,
     editHistory       |-> <<>>,
     scheduledPostTime |-> NullTime,
     rejectionReason   |-> "unset",
     postedAt          |-> NullTime,
     platforms         |-> UnsetPlatforms,
     postingErrors     |-> <<>>,
     caption           |-> "c0",
     hashtags          |-> <<"h0">>,
     \* captionData.fullPost || `${finalCaption}\n\n${hashtags.join(' ')}`
     fullPost          |-> PostText("c0", <<"h0">>),
     \* a field generateForCategory does not write: reads as undefined
     altText           |-> "undefined"]

\* docRef.update(data): the fields of data replace the document's, the
\* others stay
Update(doc, data) ==
    [f \in DOMAIN doc |-> IF f \in DOMAIN data THEN data[f] ELSE doc[f]]

\* const { scheduledPostTime } = approvalData: a key the object lacks reads
\* as undefined, which is falsy like null (NullTime stands for both)
Destructure(obj, key) == IF key \in DOMAIN obj THEN obj[key] ELSE NullTime

(* --------------------------- invocations ------------------------------ *)

NoResult == [instagram |-> "null", facebook |-> "null", errors |-> <<>>,
             success |-> FALSE, partialSuccess |-> FALSE]

NoTally == [success |-> 0, failed |-> 0, partial |-> 0]

NoResp == [success |-> FALSE, error |-> "none", immediatePost |-> "unset",
           postingError |-> <<>>, status |-> "none", results |-> NoTally]

Idle == [op |-> "none", pc |-> "idle", post |-> NoSuchPost, snap |-> NewPost,
         reqTime |-> NullTime,
         \* whether the request carried its argument (a Reject its reason,
         \* an Edit its updates)
         req |-> "none",
         \* the caption text of the last call of postToBothPlatforms, and
         \* the texts of the posts in batch as the query returned them
         sent |-> <<>>, texts |-> <<>>,
         upd |-> <<>>, res |-> NoResult, batch |-> <<>>, tally |-> NoTally,
         resp |-> NoResp]

\* a slot is free when no invocation occupies it; a finished invocation
\* leaves its response behind until the slot is taken again.  No invocation
\* starts once a post has MaxDeliveries deliveries on a platform.
Free(i) ==
    /\ inv[i].pc \in {"idle", "done"}
    /\ \A p \in DOMAIN delivered :
          delivered[p].instagram < MaxDeliveries /\ delivered[p].facebook < MaxDeliveries

Begin(op, p) == [Idle EXCEPT !.op = op, !.post = p]

\* the invocation returns resp (or rejects, resp.error telling why)
Finish(r, resp) ==
    [Begin(r.op, r.post) EXCEPT !.pc = "done", !.resp = resp, !.req = r.req,
                                !.sent = r.sent]

\* the argument of the request goes on record
Req(r, isEmpty) == [r EXCEPT !.req = IF isEmpty THEN "empty" ELSE "given"]

Throw(op, p, err) == Finish(Begin(op, p), [NoResp EXCEPT !.error = err])

\* the timestamp an interaction arrives with: x1 before x2 before x3
ArrivalTime(x) == IF x = "x1" THEN 1 ELSE IF x = "x2" THEN 2 ELSE 3

\* the document the webhook handlers store for an inbound comment or DM
\* (workflow fields only): type comment or dm, the answer classifyAndRespond
\* chose, status pending
WebhookInteraction(x, t) ==
    [status      |-> "pending",
     type        |-> "comment",
     category    |-> "faq",
     botResponse |-> "canned",
     timestamp   |-> t,
     lastError   |-> "unset",
     respondedAt |-> NullTime,
     replyId     |-> "unset"]

\* the interactions a run finds: x1 as the webhook handlers store it, x2
\* a price inquiry with no botResponse attached, x3 of a type run has no
\* reply call for
NewInteraction(x) ==
    [WebhookInteraction(x, ArrivalTime(x)) EXCEPT
        !.botResponse = IF x = "x2" THEN "" ELSE @,
        !.category = IF x = "x2" THEN "price_inquiry" ELSE @,
        !.type = IF x = "x3" THEN "other" ELSE @]

NoReplyTally == [replied |-> 0, failed |-> 0, skipped |-> 0]

NoReplyResp == [success |-> FALSE, error |-> "none", replied |-> 0,
                results |-> NoReplyTally]

\* the locals of an auto-reply run
IdleReply == [pc |-> "idle", batch |-> <<>>, cur |-> NoSuchInteraction,
              \* whether the AI was asked for the response, and what it did
              ai |-> "unused",
              response |-> "", res |-> "none", tally |-> NoReplyTally,
              resp |-> NoReplyResp]

\* the run returns resp (or rejects, resp.error telling why)
FinishReply(resp) == [IdleReply EXCEPT !.pc = "done", !.resp = resp]

\* no call of waitForMediaReady is in progress
IdleWait == [pc |-> "idle", maxAttempts |-> 0, i |-> 0, seen |-> <<>>, result |-> "none"]

Init ==
    /\ posts = [p \in PostIds |-> NewPost]
    /\ inv = [i \in Slots |-> Idle]
    /\ now = 0
    /\ hostZone \in HostZones
    /\ configured \in BOOLEAN
    /\ delivered = [p \in PostIds |-> [instagram |-> 0, facebook |-> 0]]
    /\ interactions = [x \in InteractionIds |-> NewInteraction(x)]
    /\ areply = [i \in Slots |-> IdleReply]
    /\ replies = [x \in InteractionIds |-> 0]
    /\ media = IdleWait

(* ------------------------- ApprovalService ---------------------------- *)

HistoryEntry(action, postData) ==
    [action |-> action, previousStatus |-> postData.status]

\* (mutant: only an approved post is refused)
CanApproveMutant(postData) == postData.status # "approved"
\* approvePost: the status check
CanApprove(postData) == postData.status \in {"pending", "rejected"}

\* (mutant: the status check left out)
CanRejectOrEditMutant(postData) == TRUE
\* rejectPost / editPost: the status check
CanRejectOrEdit(postData) == postData.status # "posted"

\* approvePost: updateData
ApproveUpdate(postData, approvalData, t, z) ==
    LET scheduledPostTime == Destructure(approvalData, "scheduledPostTime")
        updateData ==
            [status |-> "approved",
             approvalHistory |->
                 Append(postData.approvalHistory, HistoryEntry("approved", postData))]
    IN  IF scheduledPostTime # NullTime
        THEN updateData @@ [scheduledPostTime |-> scheduledPostTime]
        ELSE IF postData.scheduledPostTime = NullTime
             THEN updateData @@ [scheduledPostTime |-> DefaultSchedule(z, t)]
             ELSE updateData

\* rejectPost: updateData
RejectUpdate(postData, reason) ==
    [status |-> "rejected",
     rejectionReason |-> reason,
     approvalHistory |->
         Append(postData.approvalHistory, HistoryEntry("rejected", postData))]

\* editPost: the fields of updates in the order Object.keys lists them:
\* the keys of body.updates, then caption and hashtags as the controller
\* adds them
EditFieldOrder == <<"altText", "scheduledPostTime", "caption", "hashtags">>

\* the values a field holds: an array (an object), a time or null, a string
TypeOf(field) ==
    IF field = "hashtags" THEN "object"
    ELSE IF field = "scheduledPostTime" THEN "time" ELSE "string"

\* postData[field] === undefined: the document has no such field (null is
\* not undefined)
IsUndefined(field, value) == TypeOf(field) = "string" /\ value = "undefined"

\* a === b: primitives by value; two objects only when they are the same
\* object, which the array parsed from a request body and the array read
\* from the store never are
StrictEquals(field, a, b) == IF TypeOf(field) = "object" THEN FALSE ELSE a = b

\* editPost: one editHistory entry per field of updates that the document
\* has (!== undefined) and whose value is !== the new one
RECURSIVE EditEntries(_, _, _)
EditEntries(postData, updates, k) ==
    IF k > Len(EditFieldOrder) THEN <<>>
    ELSE LET field == EditFieldOrder[k]
             rest == EditEntries(postData, updates, k + 1)
         IN  IF /\ field \in DOMAIN updates
                /\ ~IsUndefined(field, postData[field])
                /\ ~StrictEquals(field, postData[field], updates[field])
             THEN <<[field |-> field, oldValue |-> postData[field],
                     newValue |-> updates[field]]>> \o rest
             ELSE rest

\* editPost: updateData
EditUpdate(postData, updates, t, z) ==
    LET updateData ==
            [status |-> "approved",
             editHistory |-> postData.editHistory \o EditEntries(postData, updates, 1),
             approvalHistory |->
                 Append(postData.approvalHistory,
                        HistoryEntry("edited_and_approved", postData))]
            @@ updates
    IN  IF postData.scheduledPostTime = NullTime
        THEN [scheduledPostTime |-> DefaultSchedule(z, t)] @@ updateData
        ELSE updateData

\* approvePost up to its first write: read, checks, updateData
ApprovePostStart(i, p, approvalData) ==
    /\ Free(i)
    /\ IF p \notin DOMAIN posts
       THEN inv' = [inv EXCEPT ![i] = Throw("approve", p, "NotFound")]
       ELSE IF ~CanApprove(posts[p])
       THEN inv' = [inv EXCEPT ![i] = Throw("approve", p, "InvalidState")]
       ELSE /\ Len(posts[p].approvalHistory) < MaxHist
            /\ inv' = [inv EXCEPT ![i] =
                   [Begin("approve", p) EXCEPT
                       !.pc = "write",
                       \* the scheduledTime the caller supplied, kept on
                       \* record until the write
                       !.reqTime = Destructure(approvalData, "scheduledTime"),
                       !.upd = ApproveUpdate(posts[p], approvalData, now, hostZone)]]
    /\ UNCHANGED <<posts, now, hostZone, configured, media, delivered, replyVars>>

\* rejectPost up to its first write
RejectPostStart(i, p, rejectionData) ==
    /\ Free(i)
    /\ LET given(r) == Req(r, rejectionData.reason = "")
       IN  IF p \notin DOMAIN posts
           THEN inv' = [inv EXCEPT ![i] = given(Throw("reject", p, "NotFound"))]
           ELSE IF ~CanRejectOrEdit(posts[p])
           THEN inv' = [inv EXCEPT ![i] = given(Throw("reject", p, "InvalidState"))]
           ELSE /\ Len(posts[p].approvalHistory) < MaxHist
                /\ inv' = [inv EXCEPT ![i] =
                       given([Begin("reject", p) EXCEPT
                                 !.pc = "write",
                                 !.upd = RejectUpdate(posts[p], rejectionData.reason)])]
    /\ UNCHANGED <<posts, now, hostZone, configured, media, delivered, replyVars>>

\* editPost up to its first write
EditPostStart(i, p, updates) ==
    /\ Free(i)
    /\ LET given(r) == Req(r, DOMAIN updates = {})
       IN  IF DOMAIN updates = {}
           THEN inv' = [inv EXCEPT ![i] = given(Throw("edit", p, "InvalidArgument"))]
           ELSE IF p \notin DOMAIN posts
           THEN inv' = [inv EXCEPT ![i] = given(Throw("edit", p, "NotFound"))]
           ELSE IF ~CanRejectOrEdit(posts[p])
           THEN inv' = [inv EXCEPT ![i] = given(Throw("edit", p, "InvalidState"))]
           ELSE /\ Len(posts[p].approvalHistory) < MaxHist
                /\ Len(posts[p].editHistory) < MaxEdits
                /\ inv' = [inv EXCEPT ![i] =
                       given([Begin("edit", p) EXCEPT
                                 !.pc = "write",
                                 !.upd = EditUpdate(posts[p], updates, now, hostZone)])]
    /\ UNCHANGED <<posts, now, hostZone, configured, media, delivered, replyVars>>

\* await postRef.update(updateData)
ServiceWrite(i) ==
    /\ inv[i].pc = "write"
    /\ posts' = [posts EXCEPT ![inv[i].post] = Update(@, inv[i].upd)]
    /\ inv' = [inv EXCEPT ![i] = [@ EXCEPT !.pc = "reread", !.upd = <<>>, !.reqTime = NullTime]]
    /\ UNCHANGED <<now, hostZone, configured, media, delivered, replyVars>>

\* const updatedDoc = await postRef.get(); rejectPost returns it, approvePost
\* and editPost hand it to postImmediately
ServiceReread(i) ==
    /\ inv[i].pc = "reread"
    /\ inv' = [inv EXCEPT ![i] =
           IF inv[i].op = "reject"
           THEN Finish(@, [NoResp EXCEPT !.success = TRUE,
                                         !.status = posts[inv[i].post].status])
           ELSE [@ EXCEPT !.pc = "publish", !.snap = posts[inv[i].post]]]
    /\ UNCHANGED <<posts, now, hostZone, configured, media, delivered, replyVars>>

(* --------------------------- MetaService ------------------------------ *)

\* (mutant: success only when both platforms accepted)
PostToBothPlatformsBoth(igOk, fbOk) ==
    [instagram |-> IF igOk THEN "result" ELSE "null",
     facebook |-> IF fbOk THEN "result" ELSE "null",
     errors |-> (IF igOk THEN <<>> ELSE <<"instagram">>)
                \o (IF fbOk THEN <<>> ELSE <<"facebook">>),
     success |-> igOk /\ fbOk, partialSuccess |-> FALSE]
\* (mutant: success whatever the platforms did)
PostToBothPlatformsAlways(igOk, fbOk) ==
    [instagram |-> IF igOk THEN "result" ELSE "null",
     facebook |-> IF fbOk THEN "result" ELSE "null",
     errors |-> (IF igOk THEN <<>> ELSE <<"instagram">>)
                \o (IF fbOk THEN <<>> ELSE <<"facebook">>),
     success |-> TRUE, partialSuccess |-> ~(igOk /\ fbOk)]
\* postToBothPlatforms, the outcome of each platform call being given:
\* Instagram is tried, then Facebook whatever Instagram did
PostToBothPlatforms(igOk, fbOk) ==
    LET instagram == IF igOk THEN "result" ELSE "null"
        facebook == IF fbOk THEN "result" ELSE "null"
        errors == (IF igOk THEN <<>> ELSE <<"instagram">>)
                  \o (IF fbOk THEN <<>> ELSE <<"facebook">>)
        success == instagram # "null" \/ facebook # "null"
    IN  [instagram |-> instagram, facebook |-> facebook, errors |-> errors,
         success |-> success, partialSuccess |-> Len(errors) > 0 /\ success]

\* posts whose media no platform accepts (every call throws), and posts
\* every platform accepts; for any other post each call can go either way
BrokenIds == {"b" \o ToString(n) : n \in 1..DefaultLimit}
GoodIds == {"g1"}

\* whether a platform call for post p can succeed (TRUE) or throw (FALSE)
PlatformOutcomes(p) ==
    IF p \in BrokenIds THEN {FALSE}
    ELSE IF p \in GoodIds THEN {TRUE} ELSE BOOLEAN

\* what the platforms have accepted so far, per post
Deliver(d, p, res) ==
    [d EXCEPT ![p] = [instagram |-> @.instagram + (IF res.instagram # "null" THEN 1 ELSE 0),
                      facebook |-> @.facebook + (IF res.facebook # "null" THEN 1 ELSE 0)]]

(* ---------------------------- posting job ----------------------------- *)

\* (mutant: the status is not written)
PostedUpdateMutant(postResult, t) ==
    [postedAt |-> t,
     platforms |-> [instagram |-> postResult.instagram,
                    facebook |-> postResult.facebook],
     postingErrors |-> postResult.errors]
\* the update both run and postImmediately write after a successful publish
PostedUpdate(postResult, t) ==
    [status |-> "posted",
     postedAt |-> t,
     platforms |-> [instagram |-> postResult.instagram,
                    facebook |-> postResult.facebook],
     postingErrors |-> postResult.errors]

\* caption: post.fullPost || `${post.caption}\n\n${post.hashtags.join(' ')}`
\* (an empty fullPost is falsy)
PublishCaption(post) ==
    IF post.fullPost # <<>> THEN post.fullPost
    ELSE PostText(post.caption, post.hashtags)

\* what approvePost / editPost return when postImmediately did not succeed:
\* the post as re-read after the approval, immediatePost false
NotPostedResponse(updatedPost, postingError) ==
    [NoResp EXCEPT !.success = TRUE, !.immediatePost = "false",
                   !.postingError = postingError, !.status = updatedPost.status]

\* a thrown Error reaches the caller as its message
Message == <<"message">>

\* postImmediately up to its store write: the configuration check and the
\* platform calls.  Without success the failure is logged and reported; a
\* failing logs.add in the else branch lands in the catch block, whose own
\* logs.add may fail too and then rejects postImmediately, which the
\* caller's catch turns into the same response with the message.
ImmediatePublish(i, Ok) ==
    /\ inv[i].pc = "publish"
    /\ IF ~configured
       THEN /\ inv' = [inv EXCEPT ![i] =
                   Finish(@, NotPostedResponse(inv[i].snap, Message))]
            /\ UNCHANGED delivered
       ELSE \E igOk \in PlatformOutcomes(inv[i].post),
               fbOk \in PlatformOutcomes(inv[i].post), logOk \in Ok.log :
              LET postResult == PostToBothPlatforms(igOk, fbOk)
                  r == [inv[i] EXCEPT !.sent = PublishCaption(inv[i].snap)]
              IN  /\ delivered' = Deliver(delivered, inv[i].post, postResult)
                  /\ inv' = [inv EXCEPT ![i] =
                         IF postResult.success
                         THEN [r EXCEPT !.pc = "pubwrite", !.res = postResult]
                         ELSE Finish(r, NotPostedResponse(inv[i].snap,
                                      IF logOk THEN postResult.errors ELSE Message))]
    /\ UNCHANGED <<posts, now, hostZone, configured, media, replyVars>>

\* postImmediately after a successful publish: the unconditional update to
\* posted, then logs.add; either can fail and is then caught and reported
\* as { success: false, error }
ImmediateWrite(i, Ok) ==
    /\ inv[i].pc = "pubwrite"
    /\ \E storeOk \in Ok.store, logOk \in Ok.log :
         /\ posts' = IF storeOk
                     THEN [posts EXCEPT ![inv[i].post] =
                              Update(@, PostedUpdate(inv[i].res, now))]
                     ELSE posts
         /\ inv' = [inv EXCEPT ![i] =
                IF storeOk /\ logOk
                THEN [@ EXCEPT !.pc = "final", !.res = NoResult]
                ELSE Finish(@, NotPostedResponse(inv[i].snap, Message))]
    /\ UNCHANGED <<now, hostZone, configured, media, delivered, replyVars>>

\* approvePost / editPost after postResult.success: const finalDoc = await
\* postRef.get(), returned with immediatePost true
ServiceFinal(i) ==
    /\ inv[i].pc = "final"
    /\ inv' = [inv EXCEPT ![i] =
           Finish(@, [NoResp EXCEPT !.success = TRUE, !.immediatePost = "true",
                                    !.status = posts[inv[i].post].status])]
    /\ UNCHANGED <<posts, now, hostZone, configured, media, delivered, replyVars>>

\* orderBy('scheduledPostTime', 'asc'): q comes before p when its time is
\* earlier, or the times are equal and its id comes first
ScheduledBefore(ps, q, p) ==
    \/ ps[q].scheduledPostTime < ps[p].scheduledPostTime
    \/ /\ ps[q].scheduledPostTime = ps[p].scheduledPostTime
       /\ q # p
       /\ q = (CHOOSE r \in {q, p} : TRUE)

\* ascending by scheduledPostTime (ids break ties, as the store's do): the
\* k-th post is the one that k - 1 posts come before
SortBySchedule(ps, S) ==
    [k \in 1..Cardinality(S) |->
        CHOOSE p \in S : Cardinality({q \in S : ScheduledBefore(ps, q, p)}) = k - 1]

\* (mutant: the scheduledPostTime filter left out)
GetApprovedPostsMutant(ps, t) ==
    SortBySchedule(ps, {p \in DOMAIN ps : ps[p].status = "approved"})
\* getApprovedPosts: status == approved and scheduledPostTime <= now (a
\* null scheduledPostTime matches no inequality filter), ascending, at most
\* limit
GetApprovedPosts(ps, t) ==
    LET eligible == {p \in DOMAIN ps : /\ ps[p].status = "approved"
                                        /\ ps[p].scheduledPostTime # NullTime
                                        /\ ps[p].scheduledPostTime <= t}
        sorted == SortBySchedule(ps, eligible)
    IN  SubSeq(sorted, 1, IF Len(sorted) < DefaultLimit THEN Len(sorted) ELSE DefaultLimit)

\* run: the caption text of each post of the batch, from the documents the
\* query returned
BatchTexts(ps, batch) == [k \in 1..Len(batch) |-> PublishCaption(ps[batch[k]])]

\* (mutant: the configuration check left out)
SweepStartMutant(i) ==
    /\ Free(i)
    /\ \E approvedPosts \in {GetApprovedPosts(posts, now)} :
          inv' = [inv EXCEPT ![i] =
              IF Len(approvedPosts) = 0
              THEN Finish(Begin("sweep", NoSuchPost), [NoResp EXCEPT !.success = TRUE])
              ELSE [Begin("sweep", Head(approvedPosts)) EXCEPT
                       !.pc = "sweep_publish", !.batch = approvedPosts,
                       !.texts = BatchTexts(posts, approvedPosts)]]
    /\ UNCHANGED <<posts, now, hostZone, configured, media, delivered, replyVars>>
\* run: the configuration check and the query
SweepStart(i) ==
    /\ Free(i)
    /\ \E approvedPosts \in {GetApprovedPosts(posts, now)} :
          inv' = [inv EXCEPT ![i] =
              IF ~configured
              THEN Finish(Begin("sweep", NoSuchPost), NoResp)
              ELSE IF Len(approvedPosts) = 0
                   THEN Finish(Begin("sweep", NoSuchPost),
                               [NoResp EXCEPT !.success = TRUE])
                   ELSE [Begin("sweep", Head(approvedPosts)) EXCEPT
                            !.pc = "sweep_publish", !.batch = approvedPosts,
                            !.texts = BatchTexts(posts, approvedPosts)]]
    /\ UNCHANGED <<posts, now, hostZone, configured, media, delivered, replyVars>>

\* run: the loop moves to the next post of the batch, or returns
SweepNext(r, tally) ==
    IF Len(r.batch) > 1
    THEN [r EXCEPT !.pc = "sweep_publish", !.batch = Tail(r.batch),
                   !.texts = Tail(r.texts),
                   !.post = r.batch[2], !.tally = tally]
    ELSE Finish(r, [NoResp EXCEPT !.success = TRUE, !.results = tally])

\* run: the catch block of the loop body counts a failure and logs it; when
\* that logs.add fails too the error leaves the loop and run rejects
SweepCatch(r, tally, logOk) ==
    LET counted == [tally EXCEPT !.failed = @ + 1]
    IN  IF logOk
        THEN SweepNext(r, counted)
        ELSE Finish(r, [NoResp EXCEPT !.error = "SweepFailed", !.results = counted])

\* run, for the post at the head of the batch: the platform calls; without
\* success the failure is counted and logged
SweepPublish(i, Ok) ==
    /\ inv[i].pc = "sweep_publish"
    /\ \E igOk \in PlatformOutcomes(inv[i].post),
          fbOk \in PlatformOutcomes(inv[i].post),
          logOk \in Ok.log, catchLogOk \in Ok.log :
         LET postResult == PostToBothPlatforms(igOk, fbOk)
             failed == [inv[i].tally EXCEPT !.failed = @ + 1]
             r == [inv[i] EXCEPT !.res = postResult, !.sent = Head(inv[i].texts)]
         IN  /\ delivered' = Deliver(delivered, inv[i].post, postResult)
             /\ inv' = [inv EXCEPT ![i] =
                    IF postResult.success
                    THEN [r EXCEPT !.pc = "sweep_write"]
                    ELSE IF logOk
                         THEN SweepNext(r, failed)
                         ELSE SweepCatch(r, failed, catchLogOk)]
    /\ UNCHANGED <<posts, now, hostZone, configured, media, replyVars>>

\* run, after a successful publish: the unconditional update to posted, the
\* tally, logs.add
SweepWrite(i, Ok) ==
    /\ inv[i].pc = "sweep_write"
    /\ \E storeOk \in Ok.store, logOk \in Ok.log, catchLogOk \in Ok.log :
         LET counted == IF inv[i].res.partialSuccess
                        THEN [inv[i].tally EXCEPT !.partial = @ + 1]
                        ELSE [inv[i].tally EXCEPT !.success = @ + 1]
         IN  /\ posts' = IF storeOk
                         THEN [posts EXCEPT ![inv[i].post] =
                                  Update(@, PostedUpdate(inv[i].res, now))]
                         ELSE posts
             /\ inv' = [inv EXCEPT ![i] =
                    IF ~storeOk THEN SweepCatch(@, inv[i].tally, catchLogOk)
                    ELSE IF logOk THEN SweepNext(@, counted)
                    ELSE SweepCatch(@, counted, catchLogOk)]
    /\ UNCHANGED <<now, hostZone, configured, media, delivered, replyVars>>

(* ------------------------------ auto-reply ---------------------------- *)

\* ascending by timestamp
RECURSIVE SortByTimestamp(_, _)
SortByTimestamp(xs, S) ==
    IF S = {} THEN <<>>
    ELSE LET first == CHOOSE x \in S : \A y \in S : xs[x].timestamp <= xs[y].timestamp
         IN  <<first>> \o SortByTimestamp(xs, S \ {first})

\* where status == pending, orderBy timestamp asc, limit 20
PendingInteractions(xs) ==
    LET sorted == SortByTimestamp(xs, {x \in DOMAIN xs : xs[x].status = "pending"})
    IN  SubSeq(sorted, 1, IF Len(sorted) < ReplyLimit THEN Len(sorted) ELSE ReplyLimit)

\* run: the configuration check and the query
ReplyStart(i) ==
    /\ areply[i].pc \in {"idle", "done"}
    /\ \A x \in DOMAIN replies : replies[x] < MaxReplies
    /\ areply' = [areply EXCEPT ![i] =
           IF ~configured
           THEN FinishReply(NoReplyResp)
           ELSE LET batch == PendingInteractions(interactions)
                IN  IF Len(batch) = 0
                    THEN FinishReply([NoReplyResp EXCEPT !.success = TRUE])
                    ELSE [IdleReply EXCEPT !.pc = "send", !.batch = batch,
                                           !.cur = Head(batch)]]
    /\ UNCHANGED <<posts, inv, now, hostZone, configured, media, delivered,
                   interactions, replies>>

\* run: the loop moves to the next interaction of the batch; after the last
\* one the tally is logged and returned, and a failing logs.add makes run
\* reject
ReplyNext(r, tally, logOk) ==
    IF Len(r.batch) > 1
    THEN [r EXCEPT !.pc = "send", !.batch = Tail(r.batch), !.cur = r.batch[2],
                   !.ai = "unused", !.response = "", !.res = "none", !.tally = tally]
    ELSE IF logOk
         THEN FinishReply([NoReplyResp EXCEPT !.success = TRUE, !.results = tally,
                                              !.replied = tally.replied])
         ELSE FinishReply([NoReplyResp EXCEPT !.error = "ReplyRunFailed",
                                              !.results = tally])

\* (mutant: no default for a category without a message of its own)
GetFallbackResponseMutant(category) ==
    IF category \in {"price_inquiry", "technical_question", "compliment", "faq"}
    THEN "fallback_" \o category
    ELSE "undefined"
\* getFallbackResponse: responses[category] || responses.faq
GetFallbackResponse(category) ==
    IF category \in {"price_inquiry", "technical_question", "compliment", "faq"}
    THEN "fallback_" \o category
    ELSE "fallback_faq"

\* what the reply call can do for an interaction
ReplyOutcomes(interaction) ==
    IF interaction.type \in {"comment", "dm"} THEN {"success", "throws"}
    ELSE {"failure"}

\* run, for the interaction at the head of the batch (as the query returned
\* it): the response is the stored botResponse, else the AI's, else the
\* fallback; then the reply call for the interaction's type and platform,
\* which returns success or throws; for a type that has no reply call
\* replyResult stays undefined ("failure")
ReplySend(i) ==
    /\ areply[i].pc = "send"
    /\ \E aiOk \in BOOLEAN, outcome \in ReplyOutcomes(interactions[areply[i].cur]) :
         LET x == areply[i].cur
             attached == interactions[x].botResponse # ""
             response == IF attached THEN interactions[x].botResponse
                         ELSE IF aiOk THEN "ai"
                         ELSE GetFallbackResponse(interactions[x].category)
         IN  /\ replies' = [replies EXCEPT ![x] = IF outcome = "success" THEN @ + 1 ELSE @]
             /\ areply' = [areply EXCEPT ![i] =
                    [@ EXCEPT !.pc = "write", !.response = response, !.res = outcome,
                              !.ai = IF attached THEN "unused"
                                     ELSE IF aiOk THEN "ok" ELSE "failed"]]
    /\ UNCHANGED <<posts, inv, now, hostZone, configured, media, delivered, interactions>>

\* the update that marks an interaction failed
FailedUpdate(doc) == [doc EXCEPT !.status = "failed", !.lastError = "error"]

\* run, after the reply call: the unconditional status update.  A failing
\* update lands in the catch block, which counts a failure and writes
\* status failed; when that update fails too the error leaves the loop and
\* run rejects.
ReplyWrite(i, Ok) ==
    /\ areply[i].pc = "write"
    /\ \E storeOk \in Ok.store, catchOk \in Ok.store, logOk \in Ok.log :
         LET r == areply[i]
             x == r.cur
             replied == [r.tally EXCEPT !.replied = @ + 1]
             failed == [r.tally EXCEPT !.failed = @ + 1]
             failedTwice == [r.tally EXCEPT !.failed = @ + 2]
             \* the tally when the catch block is entered
             caught == IF r.res = "failure" THEN failedTwice ELSE failed
             written == r.res # "throws" /\ storeOk
         IN  /\ interactions' =
                    IF written /\ r.res = "success"
                    THEN [interactions EXCEPT ![x] =
                             [@ EXCEPT !.status = "responded", !.botResponse = r.response,
                                       !.respondedAt = now, !.replyId = "id"]]
                    ELSE IF written \/ catchOk
                    THEN [interactions EXCEPT ![x] = FailedUpdate(@)]
                    ELSE interactions
             /\ areply' = [areply EXCEPT ![i] =
                    IF written
                    THEN ReplyNext(r, IF r.res = "success" THEN replied ELSE failed, logOk)
                    ELSE IF catchOk
                    THEN ReplyNext(r, caught, logOk)
                    ELSE FinishReply([NoReplyResp EXCEPT !.error = "ReplyRunFailed",
                                                         !.results = caught])]
    /\ UNCHANGED <<posts, inv, now, hostZone, configured, media, delivered, replies>>

(* ------------------------------ webhooks ------------------------------ *)

\* new Date() of a delivery: later than every timestamp stored so far
LatestStamp ==
    CHOOSE t \in {interactions[x].timestamp : x \in DOMAIN interactions} :
        \A x \in DOMAIN interactions : interactions[x].timestamp <= t

\* handleInstagramChange / handleFacebookChange (routes/webhooks.js): a
\* delivery for comment id x; doc(id).set replaces the whole document,
\* whether or not one exists under that id
WebhookDeliver(x) ==
    /\ LatestStamp < MaxStamp
    /\ interactions' = [interactions EXCEPT ![x] = WebhookInteraction(x, LatestStamp + 1)]
    /\ UNCHANGED <<posts, inv, now, hostZone, configured, media, delivered, areply, replies>>

\* handleComment (interactionController.js, POST /api/interactions/webhook):
\* the same set, with status responded and no reply sent
HandleComment(x) ==
    /\ LatestStamp < MaxStamp
    /\ interactions' = [interactions EXCEPT ![x] =
           [WebhookInteraction(x, LatestStamp + 1) EXCEPT !.status = "responded"]]
    /\ UNCHANGED <<posts, inv, now, hostZone, configured, media, delivered, areply, replies>>

(* --------------------------- post controller -------------------------- *)

\* exports.approvePost: the body's scheduledTime is handed on under the key
\* scheduledTime
ControllerApprovalData(body) ==
    [approvedBy |-> "admin", scheduledTime |-> body.scheduledTime]

ApproveRequest(i, p, body) == ApprovePostStart(i, p, ControllerApprovalData(body))

\* (mutant: the reason is not checked)
RejectRequestMutant(i, p, body) ==
    RejectPostStart(i, p, [rejectedBy |-> "admin", reason |-> body.reason])
\* exports.rejectPost: 400 without a reason (a missing reason and an empty
\* one are both falsy; "" stands for either)
RejectRequest(i, p, body) ==
    IF body.reason = ""
    THEN /\ Free(i)
         /\ inv' = [inv EXCEPT ![i] = Req(Throw("reject", p, "InvalidArgument"), TRUE)]
         /\ UNCHANGED <<posts, now, hostZone, configured, media, delivered, replyVars>>
    ELSE RejectPostStart(i, p, [rejectedBy |-> "admin", reason |-> body.reason])

\* exports.editPost: updates = body.updates || {}, plus a truthy caption
\* and the hashtags when the body has them (an array is truthy)
ControllerUpdates(body) ==
    (IF body.caption # "" THEN [caption |-> body.caption] ELSE <<>>)
    @@ (IF "hashtags" \in DOMAIN body THEN [hashtags |-> body.hashtags] ELSE <<>>)
    @@ body.updates

EditRequest(i, p, body) ==
    IF DOMAIN ControllerUpdates(body) = {}
    THEN /\ Free(i)
         /\ inv' = [inv EXCEPT ![i] = Req(Throw("edit", p, "InvalidArgument"), TRUE)]
         /\ UNCHANGED <<posts, now, hostZone, configured, media, delivered, replyVars>>
    ELSE EditPostStart(i, p, ControllerUpdates(body))

(* ------------------------------ clock --------------------------------- *)

Tick(step) ==
    /\ now + step <= MaxNow
    /\ now' = now + step
    /\ UNCHANGED <<posts, inv, hostZone, configured, media, delivered, replyVars>>

(* --------------------------- specifications --------------------------- *)

\* what the writes to the store (posts, interactions) and to the logs
\* collection may do: succeed (TRUE) or reject (FALSE)
Sound == [store |-> {TRUE}, log |-> {TRUE}]
Faulty == [store |-> BOOLEAN, log |-> BOOLEAN]
LogFaulty == [store |-> {TRUE}, log |-> BOOLEAN]

\* request bodies
ApproveBodies == {[scheduledTime |-> NullTime], [scheduledTime |-> 6]}
RejectBodies == {[reason |-> ""], [reason |-> "r1"]}
EditBodies == {[caption |-> "", updates |-> <<>>],
               [caption |-> "c0", updates |-> <<>>],
               [caption |-> "c1", updates |-> <<>>]}

Targets == PostIds \cup {NoSuchPost}

\* the steps of invocation i: requests on the posts T with bodies from AB,
\* RB and EB, store and log writes succeeding as Ok.store and Ok.log allow
Step(i, T, AB, RB, EB, Ok) ==
    \/ \E p \in T, body \in AB : ApproveRequest(i, p, body)
    \/ \E p \in T, body \in RB : RejectRequest(i, p, body)
    \/ \E p \in T, body \in EB : EditRequest(i, p, body)
    \/ SweepStart(i)
    \/ ServiceWrite(i)
    \/ ServiceReread(i)
    \/ ImmediatePublish(i, Ok)
    \/ ImmediateWrite(i, Ok)
    \/ ServiceFinal(i)
    \/ SweepPublish(i, Ok)
    \/ SweepWrite(i, Ok)

\* invocations one at a time: a single slot, so none overlaps another
Next == Step(1, Targets, ApproveBodies, RejectBodies, EditBodies, Faulty) \/ Tick(6)

Spec == Init /\ [][Next]_vars

\* overlapping invocations on one post, the adapter configured
InitConc == Init /\ hostZone = "UTC" /\ configured

NextConc ==
    \/ \E i \in Slots : Step(i, PostIds, {[scheduledTime |-> NullTime]},
                             {[reason |-> "r1"]},
                             {[caption |-> "c1", updates |-> <<>>]}, Sound)
    \/ Tick(18)

SpecConc == InitConc /\ [][NextConc]_vars

\* scheduling: one invocation at a time, the clock moving hour by hour
NextSched ==
    \/ Step(1, PostIds, ApproveBodies, {[reason |-> "r1"]},
            {[caption |-> "c1", updates |-> <<>>]}, Sound)
    \/ Tick(1)

SpecSched == Init /\ [][NextSched]_vars

\* one invocation at a time, the posts collection taking every update, the
\* logs collection rejecting some writes
NextLog ==
    \/ Step(1, PostIds, {[scheduledTime |-> NullTime]}, {[reason |-> "r1"]},
            {[caption |-> "c1", updates |-> <<>>]}, LogFaulty)
    \/ Tick(6)

SpecLog == Init /\ [][NextLog]_vars

\* an Approve or Edit with its immediate publish, and posting runs that
\* overlap it and each other
NextOverlap ==
    \/ \E p \in PostIds : ApproveRequest(1, p, [scheduledTime |-> NullTime])
    \/ \E p \in PostIds : EditRequest(1, p, [caption |-> "c1", updates |-> <<>>])
    \/ ServiceWrite(1)
    \/ ServiceReread(1)
    \/ ImmediatePublish(1, Sound)
    \/ ImmediateWrite(1, Sound)
    \/ ServiceFinal(1)
    \/ \E i \in Slots : SweepStart(i)
    \/ \E i \in Slots : SweepPublish(i, Sound)
    \/ \E i \in Slots : SweepWrite(i, Sound)
    \/ Tick(18)

SpecOverlap == InitConc /\ [][NextOverlap]_vars

\* auto-reply runs that overlap
NextReply ==
    \/ \E i \in Slots : ReplyStart(i)
    \/ \E i \in Slots : ReplySend(i)
    \/ \E i \in Slots : ReplyWrite(i, Sound)

SpecReply == InitConc /\ [][NextReply]_vars

\* one auto-reply run at a time, the store and the logs collection
\* rejecting some writes
NextReplyFaulty ==
    \/ ReplyStart(1)
    \/ ReplySend(1)
    \/ ReplyWrite(1, Faulty)

SpecReplyFaulty == InitConc /\ [][NextReplyFaulty]_vars

\* auto-reply runs over interactions whose unanswered one is of a category
\* with a fallback message of its own, or of one without
InitReply ==
    /\ posts = [p \in PostIds |-> NewPost]
    /\ inv = [i \in Slots |-> Idle]
    /\ now = 0
    /\ hostZone = "UTC"
    /\ configured = TRUE
    /\ delivered = [p \in PostIds |-> [instagram |-> 0, facebook |-> 0]]
    /\ \E c \in {"price_inquiry", "unknown"} :
          interactions = [x \in InteractionIds |->
                             IF x = "x2" THEN [NewInteraction(x) EXCEPT !.category = c]
                             ELSE NewInteraction(x)]
    /\ areply = [i \in Slots |-> IdleReply]
    /\ replies = [x \in InteractionIds |-> 0]
    /\ media = IdleWait

SpecReplyAi == InitReply /\ [][NextReply]_vars

\* webhook deliveries and auto-reply runs, one run at a time
NextWebhook ==
    \/ \E x \in InteractionIds : WebhookDeliver(x)
    \/ \E x \in InteractionIds : HandleComment(x)
    \/ ReplyStart(1)
    \/ ReplySend(1)
    \/ ReplyWrite(1, Sound)

SpecWebhook == InitConc /\ [][NextWebhook]_vars

\* editing: one invocation at a time, edits of every editable field
EditFieldBodies ==
    {[caption |-> "c0", updates |-> <<>>],
     [caption |-> "c1", updates |-> <<>>],
     [caption |-> "", hashtags |-> <<"h0">>, updates |-> <<>>],
     [caption |-> "", hashtags |-> <<"h1">>, updates |-> <<>>],
     [caption |-> "", updates |-> [altText |-> "a1"]],
     [caption |-> "", updates |-> [scheduledPostTime |-> NullTime]]}

NextEdit ==
    \/ \E p \in PostIds, body \in EditFieldBodies : EditRequest(1, p, body)
    \/ ServiceWrite(1)
    \/ ServiceReread(1)
    \/ ImmediatePublish(1, Sound)
    \/ ImmediateWrite(1, Sound)
    \/ ServiceFinal(1)
    \/ Tick(6)

SpecEdit == Init /\ [][NextEdit]_vars

\* the posting job: posts that earlier requests left pending, approved (on
\* day 0 before or after the publish hour), rejected or posted, the third
\* one posted; one run at a time, writes failing or not
SweepPostIds == {"p1", "p2", "p3"}

ApprovedDoc(t) ==
    Update(NewPost, ApproveUpdate(NewPost, [approvedBy |-> "admin"], t, "UTC"))

SweepDocs ==
    {NewPost, ApprovedDoc(0), ApprovedDoc(PublishHour),
     Update(NewPost, RejectUpdate(NewPost, "r1")),
     Update(ApprovedDoc(0), PostedUpdate(PostToBothPlatforms(TRUE, TRUE), PublishHour))}

InitSweep ==
    /\ posts \in [SweepPostIds -> SweepDocs]
    /\ posts["p3"].status = "posted"
    /\ inv = [i \in Slots |-> Idle]
    /\ now \in {PublishHour - 1, PublishHour + HoursPerDay}
    /\ hostZone = "UTC"
    /\ configured \in BOOLEAN
    /\ delivered = [p \in SweepPostIds |->
                       IF posts[p].status = "posted"
                       THEN [instagram |-> 1, facebook |-> 1]
                       ELSE [instagram |-> 0, facebook |-> 0]]
    /\ interactions = [x \in InteractionIds |-> NewInteraction(x)]
    /\ areply = [i \in Slots |-> IdleReply]
    /\ replies = [x \in InteractionIds |-> 0]
    /\ media = IdleWait

NextSweep ==
    \/ SweepStart(1)
    \/ SweepPublish(1, Faulty)
    \/ SweepWrite(1, Faulty)
    \/ Tick(1)

SpecSweep == InitSweep /\ [][NextSweep]_vars

\* both periodic jobs, one run of each at a time, every write succeeding
NextJobs ==
    \/ SweepStart(1)
    \/ SweepPublish(1, Sound)
    \/ SweepWrite(1, Sound)
    \/ ReplyStart(1)
    \/ ReplySend(1)
    \/ ReplyWrite(1, Sound)

SpecJobs == InitSweep /\ [][NextJobs]_vars

\* recurring posting runs over a backlog: approved posts that are due and
\* that no platform accepts, one fewer than the limit of the query or as
\* many, and one later post that every platform accepts
InitBacklog ==
    /\ \E n \in {DefaultLimit - 1, DefaultLimit} :
          posts = [p \in {"b" \o ToString(k) : k \in 1..n} \cup GoodIds |->
                      IF p \in GoodIds THEN ApprovedDoc(PublishHour) ELSE ApprovedDoc(0)]
    /\ inv = [i \in Slots |-> Idle]
    /\ now \in {PublishHour + HoursPerDay, PublishHour + 2 * HoursPerDay}
    /\ hostZone = "UTC"
    /\ configured = TRUE
    /\ delivered = [p \in DOMAIN posts |-> [instagram |-> 0, facebook |-> 0]]
    /\ interactions = [x \in InteractionIds |-> NewInteraction(x)]
    /\ areply = [i \in Slots |-> IdleReply]
    /\ replies = [x \in InteractionIds |-> 0]
    /\ media = IdleWait

NextBacklog ==
    \/ SweepStart(1)
    \/ SweepPublish(1, Sound)
    \/ SweepWrite(1, Sound)

\* the posting job is scheduled again and again (cron.schedule), and a run
\* that has started goes on to its end
SpecBacklog == InitBacklog /\ [][NextBacklog]_vars /\ WF_vars(NextBacklog)

(* --------------------------- MetaService ------------------------------ *)

\* what one status request gives: a status_code of the container, or a
\* rejected request
CheckOutcomes == {"FINISHED", "ERROR", "IN_PROGRESS", "EXPIRED", "rejects"}

\* the body of the loop with a failed status request rethrown
AfterCheckMutant(w, outcome) ==
    LET seen == Append(w.seen, outcome) IN
    CASE outcome = "FINISHED" ->
            [w EXCEPT !.pc = "done", !.seen = seen, !.result = "true"]
      [] outcome = "ERROR" ->
            [w EXCEPT !.pc = "done", !.seen = seen, !.result = "Media processing failed"]
      [] outcome = "rejects" ->
            [w EXCEPT !.pc = "done", !.seen = seen, !.result = "Request failed"]
      [] OTHER ->
            [w EXCEPT !.seen = seen, !.i = @ + 1]

\* the body of the loop: FINISHED returns true, ERROR throws and the catch
\* rethrows it, any other status and any other error wait and go on to the
\* next i
AfterCheck(w, outcome) ==
    LET seen == Append(w.seen, outcome) IN
    CASE outcome = "FINISHED" ->
            [w EXCEPT !.pc = "done", !.seen = seen, !.result = "true"]
      [] outcome = "ERROR" ->
            [w EXCEPT !.pc = "done", !.seen = seen, !.result = "Media processing failed"]
      [] OTHER ->
            [w EXCEPT !.seen = seen, !.i = @ + 1]

\* waitForMediaReady(creationId, maxAttempts, intervalMs) is called
WaitStart(maxAttempts) ==
    /\ media.pc = "idle"
    /\ media' = [IdleWait EXCEPT !.pc = "check", !.maxAttempts = maxAttempts]
    /\ UNCHANGED <<posts, inv, now, hostZone, configured, delivered, replyVars>>

\* one pass of the loop: i < maxAttempts, the status request and what
\* follows from its outcome
WaitCheck ==
    /\ media.pc = "check"
    /\ media.i < media.maxAttempts
    /\ \E outcome \in CheckOutcomes : media' = AfterCheck(media, outcome)
    /\ UNCHANGED <<posts, inv, now, hostZone, configured, delivered, replyVars>>

\* the loop has ended: throw new Error('Media processing timeout')
WaitTimeout ==
    /\ media.pc = "check"
    /\ ~(media.i < media.maxAttempts)
    /\ media' = [media EXCEPT !.pc = "done", !.result = "Media processing timeout"]
    /\ UNCHANGED <<posts, inv, now, hostZone, configured, delivered, replyVars>>

NextWait ==
    \/ \E maxAttempts \in 0..MaxAttempts : WaitStart(maxAttempts)
    \/ WaitCheck
    \/ WaitTimeout

SpecWait == InitConc /\ [][NextWait]_vars

(* ------------------------------ claims -------------------------------- *)

\* invocation i takes a request in this step
Starts(i, op) ==
    /\ inv[i].pc \in {"idle", "done"}
    /\ inv'[i] # inv[i]
    /\ inv'[i].op = op

Rejected(r, err) == r.pc = "done" /\ r.resp.error = err /\ ~r.resp.success

\* C1: an Approve on a post whose status is not pending or rejected fails
\* with InvalidState, a Reject or an Edit (with a reason, with updates) on a
\* posted post fails with InvalidState, and the failing call leaves every
\* post document as it was.
C1_InvalidStateLeavesPost ==
    [][\A i \in Slots :
         LET p == inv'[i].post
         IN  /\ (Starts(i, "approve") /\ p \in PostIds
                   /\ posts[p].status \notin {"pending", "rejected"})
                => (Rejected(inv'[i], "InvalidState") /\ posts' = posts)
             /\ ((Starts(i, "reject") \/ Starts(i, "edit")) /\ p \in PostIds
                   /\ posts[p].status = "posted"
                   /\ inv'[i].resp.error # "InvalidArgument")
                => (Rejected(inv'[i], "InvalidState") /\ posts' = posts)
             /\ (inv'[i] # inv[i] /\ Rejected(inv'[i], "InvalidState"))
                => posts' = posts]_vars

C1_Witness ==
    \E i \in Slots :
        /\ Rejected(inv[i], "InvalidState")
        /\ inv[i].op = "edit"
        /\ posts[inv[i].post].status = "posted"

AllowedMoves ==
    {<<"pending", "approved">>, <<"pending", "rejected">>,
     <<"approved", "rejected">>, <<"approved", "posted">>,
     <<"rejected", "approved">>}

\* C2: with invocations one at a time, every change of a post's status is
\* pending->approved, pending->rejected, approved->rejected,
\* approved->posted or rejected->approved, and posted never changes.
C2_LegalMoves ==
    [][\A p \in PostIds :
         posts'[p].status # posts[p].status
         => <<posts[p].status, posts'[p].status>> \in AllowedMoves]_vars

\* a post published after it was rejected and approved again
C2_Witness ==
    \E p \in PostIds :
        /\ posts[p].status = "posted"
        /\ \E k \in 1..Len(posts[p].approvalHistory) :
             posts[p].approvalHistory[k].previousStatus = "rejected"

\* C3: under every interleaving, a post whose stored status is posted stays
\* posted.
C3_PostedIsTerminal ==
    [][\A p \in PostIds :
         posts[p].status = "posted" => posts'[p].status = "posted"]_vars

\* the platforms that accepted the post in this step
Accepted(p) ==
    {pf \in {"instagram", "facebook"} : delivered'[p][pf] > delivered[p][pf]}

\* C4: when a publish attempt on a post gets exactly one platform to accept
\* it, the attempt goes on to the store write, and that write sets status
\* posted, platforms to the accepting platform's result alone (null for the
\* other) and postingErrors to the failing platform's error alone.
C4_PartialSuccess ==
    [][\A i \in Slots :
         LET p == inv[i].post
             r == inv[i].res
         IN  /\ (inv[i].pc \in {"publish", "sweep_publish"} /\ inv'[i] # inv[i]
                   /\ Cardinality(Accepted(p)) = 1)
                => /\ inv'[i].pc \in {"pubwrite", "sweep_write"}
                   /\ \A pf \in {"instagram", "facebook"} :
                        (inv'[i].res[pf] = "result") = (pf \in Accepted(p))
             /\ (inv[i].pc \in {"pubwrite", "sweep_write"} /\ posts' # posts
                   /\ r.instagram # r.facebook)
                => /\ posts'[p].status = "posted"
                   /\ posts'[p].platforms.instagram = r.instagram
                   /\ posts'[p].platforms.facebook = r.facebook
                   /\ posts'[p].postingErrors =
                        <<IF r.instagram = "null" THEN "instagram" ELSE "facebook">>]_vars

\* Instagram failed and Facebook, tried all the same, accepted the post
C4_Witness ==
    \E p \in PostIds :
        /\ posts[p].status = "posted"
        /\ posts[p].platforms = [instagram |-> "null", facebook |-> "result"]
        /\ posts[p].postingErrors = <<"instagram">>
        /\ delivered[p] = [instagram |-> 0, facebook |-> 1]

\* C5: a publish attempt (immediate or sweep) that no platform accepts
\* writes nothing: no store write follows, the post keeps status approved,
\* postedAt and platforms stay unset.
C5_TotalFailureWritesNothing ==
    [][\A i \in Slots :
         LET p == inv[i].post
         IN  (inv[i].pc \in {"publish", "sweep_publish"} /\ inv'[i] # inv[i]
                /\ Accepted(p) = {})
             => /\ posts' = posts
                /\ inv'[i].pc \notin {"pubwrite", "sweep_write"}
                /\ posts'[p].status = "approved"
                /\ posts'[p].postedAt = NullTime
                /\ posts'[p].platforms = UnsetPlatforms]_vars

\* a sweep found the post, no platform accepted it, and it is still there
\* for the next sweep
C5_Witness ==
    \E i \in Slots, p \in PostIds :
        /\ inv[i].op = "sweep" /\ inv[i].pc = "done"
        /\ inv[i].resp.results.failed > 0
        /\ configured
        /\ delivered[p] = [instagram |-> 0, facebook |-> 0]
        /\ GetApprovedPosts(posts, now) = <<p>>

\* C6: an Approve or Edit that got as far as its status update returns
\* success whatever the immediate publish did; when it reports
\* immediatePost = false the postingError is populated and the stored post
\* has status approved.
C6_NotPostedMeansApproved ==
    \A i \in Slots :
        (inv[i].pc = "done" /\ inv[i].op \in {"approve", "edit"}
           /\ inv[i].resp.error = "none")
        => /\ inv[i].resp.success
           /\ inv[i].resp.immediatePost = "false"
              => /\ inv[i].resp.postingError # <<>>
                 /\ posts[inv[i].post].status = "approved"

IsPrefix(s, t) == Len(s) <= Len(t) /\ SubSeq(t, 1, Len(s)) = s

\* C7: every status transition of a post makes approvalHistory exactly one
\* entry longer, the earlier entries unchanged, and no step of any
\* interleaving shortens approvalHistory or drops an entry.
C7_HistoryAppendOnly ==
    [][\A p \in PostIds :
         /\ IsPrefix(posts[p].approvalHistory, posts'[p].approvalHistory)
         /\ posts'[p].status # posts[p].status
            => Len(posts'[p].approvalHistory) = Len(posts[p].approvalHistory) + 1]_vars

\* the status an approvalHistory entry's action sets
StatusSet(entry) == IF entry.action = "rejected" THEN "rejected" ELSE "approved"

\* C8: the entry Approve, Reject or Edit appends carries as previousStatus
\* the status the stored post had just before the update, so each entry's
\* previousStatus is the status the entry before it set.
C8_PreviousStatusChains ==
    [][\A i \in Slots :
         (inv[i].pc = "write" /\ inv'[i].pc = "reread")
         => LET p == inv[i].post
                h == posts'[p].approvalHistory
            IN  /\ h[Len(h)].previousStatus = posts[p].status
                /\ \A k \in 2..Len(h) :
                      h[k].previousStatus = StatusSet(h[k - 1])]_vars

\* 17:00 UTC of the UTC day of t, or of the next UTC day from 17:00 on
PublishHourAfter(t) ==
    IF t % HoursPerDay < PublishHour
    THEN (t \div HoursPerDay) * HoursPerDay + PublishHour
    ELSE (t \div HoursPerDay + 1) * HoursPerDay + PublishHour

\* C9: an Approve or Edit of a post without scheduledPostTime schedules it
\* at 17:00 UTC of the current UTC day before that hour and of the next UTC
\* day after it; a post that has a scheduledPostTime keeps it.
C9_DefaultSchedule ==
    [][\A i \in Slots :
         ((Starts(i, "approve") \/ Starts(i, "edit")) /\ inv'[i].pc = "write")
         => LET p == inv'[i].post
            IN  IF posts[p].scheduledPostTime = NullTime
                THEN Update(posts[p], inv'[i].upd).scheduledPostTime = PublishHourAfter(now)
                ELSE Update(posts[p], inv'[i].upd).scheduledPostTime
                         = posts[p].scheduledPostTime]_vars

\* C10: an approval whose caller supplied a scheduledTime stores that value
\* as the post's scheduledPostTime.
C10_SuppliedTimeIsStored ==
    [][\A i \in Slots :
         (inv[i].pc = "write" /\ inv'[i].pc = "reread" /\ inv[i].op = "approve"
            /\ inv[i].reqTime # NullTime)
         => posts'[inv[i].post].scheduledPostTime = inv[i].reqTime]_vars

\* C11: in every reachable state a post whose status is approved has a
\* scheduledPostTime that is not null, whichever operation approved it.
C11_ApprovedIsScheduled ==
    \A p \in DOMAIN posts :
        posts[p].status = "approved" => posts[p].scheduledPostTime # NullTime

\* C12: an Edit appends to editHistory, after the entries the post had,
\* exactly one entry with the old and the new value for each updated field
\* (caption, hashtags, a field the post did not have) whose new value
\* differs from the post's current value, and none for a field whose new
\* value equals the current one.
C12_EditDiffMinimal ==
    [][\A i \in Slots :
         (Starts(i, "edit") /\ inv'[i].pc = "write")
         => LET p == inv'[i].post
                u == inv'[i].upd
                old == posts[p].editHistory
                new == u.editHistory
            IN  /\ IsPrefix(old, new)
                /\ \A f \in {"caption", "hashtags", "altText"} \cap DOMAIN u :
                     LET ks == {k \in (Len(old) + 1)..Len(new) : new[k].field = f}
                     IN  IF posts[p][f] # u[f]
                         THEN /\ Cardinality(ks) = 1
                              /\ \A k \in ks : /\ new[k].oldValue = posts[p][f]
                                               /\ new[k].newValue = u[f]
                         ELSE ks = {}]_vars

\* the posts a query at this moment must return: approved and due
Due == {p \in DOMAIN posts : /\ posts[p].status = "approved"
                              /\ posts[p].scheduledPostTime # NullTime
                              /\ posts[p].scheduledPostTime <= now}

Min(a, b) == IF a < b THEN a ELSE b

C14_SweepIsolation ==
    [][\A i \in Slots :
         (inv[i].pc \in {"sweep_publish", "sweep_write"} /\ inv'[i] # inv[i])
         => /\ inv'[i].resp.error = "none"
            /\ (Len(inv[i].batch) > 1 /\ inv'[i].pc # "sweep_write")
               => /\ inv'[i].pc = "sweep_publish"
                  /\ inv'[i].post = inv[i].batch[2]]_vars

\* C15: while the adapter is not configured, a posting run and an
\* auto-reply run make no platform call, change no post and no interaction
\* and report zero posted / zero replied.
C15_NotConfiguredShortCircuit ==
    [][~configured
       => /\ posts' = posts
          /\ delivered' = delivered
          /\ interactions' = interactions
          /\ replies' = replies
          /\ \A i \in Slots :
               /\ inv'[i] # inv[i]
                  => /\ inv'[i].pc = "done"
                     /\ ~inv'[i].resp.success
                     /\ inv'[i].resp.results = NoTally
               /\ areply'[i] # areply[i]
                  => /\ areply'[i].pc = "done"
                     /\ ~areply'[i].resp.success
                     /\ areply'[i].resp.replied = 0
                     /\ areply'[i].resp.results = NoReplyTally]_vars

\* both jobs have run unconfigured over due posts and pending interactions
C15_Witness ==
    /\ ~configured
    /\ inv[1].op = "sweep" /\ inv[1].pc = "done"
    /\ areply[1].pc = "done"
    /\ Cardinality(Due) >= 2
    /\ \A x \in DOMAIN interactions : interactions[x].status = "pending"

\* the invocation approved a pending post: the post as re-read after the
\* approval has the one entry of that approval
ApprovedFromPending(r) ==
    /\ r.op = "approve"
    /\ Len(r.snap.approvalHistory) = 1
    /\ r.snap.approvalHistory[1].previousStatus = "pending"

C17_ApproveAndPublish ==
    [][\A i \in Slots :
         LET p == inv[i].post
         IN  /\ (inv[i].pc = "publish" /\ ApprovedFromPending(inv[i])
                   /\ Accepted(p) = {"instagram", "facebook"})
                => inv'[i].pc = "pubwrite"
             /\ (inv[i].pc = "pubwrite" /\ ApprovedFromPending(inv[i])
                   /\ inv'[i] # inv[i]
                   /\ inv[i].res.instagram = "result" /\ inv[i].res.facebook = "result")
                => /\ inv'[i].pc = "final"
                   /\ posts'[p].status = "posted"
                   /\ posts'[p].postedAt # NullTime
                   /\ posts'[p].platforms = [instagram |-> "result", facebook |-> "result"]
                   /\ posts'[p].postingErrors = <<>>
                   /\ posts'[p].approvalHistory =
                        <<[action |-> "approved", previousStatus |-> "pending"]>>
             /\ (inv[i].pc = "final" /\ ApprovedFromPending(inv[i]) /\ inv'[i] # inv[i])
                => /\ inv'[i].resp.success
                   /\ inv'[i].resp.immediatePost = "true"
                   /\ inv'[i].resp.status = "posted"]_vars

\* C18: a Reject without a reason and an Edit without updates fail with
\* InvalidArgument and change no post document.
C18_InvalidArgument ==
    [][\A i \in Slots :
         ((Starts(i, "reject") \/ Starts(i, "edit")) /\ inv'[i].req = "empty")
         => /\ Rejected(inv'[i], "InvalidArgument")
            /\ posts' = posts]_vars

\* a Reject without a reason was refused on a post it could have rejected
C18_Witness ==
    \E i \in Slots :
        /\ inv[i].op = "reject" /\ inv[i].req = "empty"
        /\ Rejected(inv[i], "InvalidArgument")
        /\ inv[i].post \in PostIds
        /\ posts[inv[i].post].status = "approved"
        /\ posts[inv[i].post].rejectionReason = "unset"

\* C19: the update that follows a successful publish, immediate or in a
\* posting run, is written whatever status the stored post has by then
\* (approved, or posted by an overlapping invocation), so overlapping
\* invocations can each deliver the same post to the same platform.
C19_UnconditionalPostedWrite ==
    [][\A i \in Slots :
         (inv[i].pc \in {"pubwrite", "sweep_write"} /\ inv'[i] # inv[i])
         => LET p == inv[i].post
            IN  /\ posts'[p].status = "posted"
                /\ posts'[p].postedAt = now
                /\ posts'[p].platforms = [instagram |-> inv[i].res.instagram,
                                          facebook |-> inv[i].res.facebook]
                /\ posts'[p].postingErrors = inv[i].res.errors]_vars

\* Instagram accepted the same post twice: once from an invocation that
\* has stored posted, once from one that is about to store it again
C19_Witness ==
    \E p \in PostIds, i \in Slots :
        /\ delivered[p].instagram = 2
        /\ posts[p].status = "posted"
        /\ inv[i].pc \in {"pubwrite", "sweep_write"}
        /\ inv[i].post = p
        /\ posts[p].scheduledPostTime <= now

\* C20: whatever auto-reply runs do, overlapping or not, an interaction's
\* status only changes from pending (to responded or to failed), and a
\* run's query returns only interactions that are pending.
C20_InteractionStatusMoves ==
    [][/\ \A x \in DOMAIN interactions :
            interactions'[x].status # interactions[x].status
            => /\ interactions[x].status = "pending"
               /\ interactions'[x].status \in {"responded", "failed"}
       /\ \A i \in Slots :
            (areply[i].pc \in {"idle", "done"} /\ areply'[i].pc = "send")
            => \A k \in 1..Len(areply'[i].batch) :
                  interactions[areply'[i].batch[k]].status = "pending"]_vars

\* C21: in an auto-reply run, an interaction whose reply call succeeded is
\* stored as responded with the response text, the time and the reply id;
\* one whose reply call failed, was impossible or threw is stored as failed
\* with lastError; and the run goes on to the next interaction of its batch.
C21_ReplyOutcomeStored ==
    [][\A i \in Slots :
         (areply[i].pc = "write" /\ areply'[i] # areply[i])
         => LET r == areply[i]
                x == r.cur
            IN  /\ r.res = "success"
                   => /\ interactions'[x].status = "responded"
                      /\ interactions'[x].botResponse = r.response
                      /\ interactions'[x].respondedAt = now
                      /\ interactions'[x].replyId # "unset"
                /\ r.res # "success"
                   => /\ interactions'[x].status = "failed"
                      /\ interactions'[x].lastError # "unset"
                /\ Len(r.batch) > 1
                   => /\ areply'[i].pc = "send"
                      /\ areply'[i].cur = r.batch[2]]_vars

\* C22: in an auto-reply run, an interaction with no response attached is
\* answered with the AI's text, and when the AI fails with the fallback
\* message of its category (the faq message for a category that has none);
\* the reply is dispatched either way, and after an AI failure an accepted
\* reply is stored as responded and the run goes on.
C22_FallbackOnAiFailure ==
    [][\A i \in Slots :
         LET r == areply[i]
             x == r.cur
         IN  /\ (r.pc = "send" /\ areply'[i] # r)
                => /\ areply'[i].pc = "write"
                   /\ areply'[i].res \in {"success", "throws", "failure"}
                   /\ interactions[x].botResponse # ""
                      => /\ areply'[i].ai = "unused"
                         /\ areply'[i].response = interactions[x].botResponse
                   /\ interactions[x].botResponse = ""
                      => /\ areply'[i].ai \in {"ok", "failed"}
                         /\ areply'[i].ai = "ok" => areply'[i].response = "ai"
                         /\ (areply'[i].ai = "failed"
                               /\ interactions[x].category = "price_inquiry")
                            => areply'[i].response = "fallback_price_inquiry"
                         /\ (areply'[i].ai = "failed"
                               /\ interactions[x].category = "unknown")
                            => areply'[i].response = "fallback_faq"
             /\ (r.pc = "write" /\ areply'[i] # r /\ r.ai = "failed" /\ r.res = "success")
                => /\ interactions'[x].status = "responded"
                   /\ interactions'[x].botResponse = r.response
                   /\ areply'[i].resp.error = "none"]_vars

\* an interaction of an unknown category was answered with the faq
\* fallback and is stored as responded
C22_Witness ==
    /\ interactions["x2"].category = "unknown"
    /\ interactions["x2"].status = "responded"
    /\ interactions["x2"].botResponse = "fallback_faq"
    /\ replies["x2"] = 1

\* C23: once an interaction is responded or failed, nothing changes its
\* document any more; in particular a later webhook delivery for the same
\* id does not overwrite it or reset it to pending.
C23_WebhookKeepsFinished ==
    [][\A x \in DOMAIN interactions :
         interactions[x].status \in {"responded", "failed"}
         => interactions'[x] = interactions[x]]_vars

\* C24: no platform call accepts a post, and no publish attempt writes
\* status posted, while the stored status of the post is rejected; also
\* when the Reject committed after the publishing invocation read the post.
C24_RejectedNeverPublished ==
    [][\A i \in Slots :
         LET p == inv[i].post
         IN  /\ (inv[i].pc \in {"publish", "sweep_publish"} /\ inv'[i] # inv[i]
                   /\ delivered'[p] # delivered[p])
                => posts[p].status # "rejected"
             /\ (inv[i].pc \in {"pubwrite", "sweep_write"} /\ inv'[i] # inv[i]
                   /\ posts'[p] # posts[p])
                => posts[p].status # "rejected"]_vars

\* C25: with posting runs recurring, an approved post whose
\* scheduledPostTime has passed and that the platforms accept is eventually
\* posted, however many earlier approved posts keep failing.
C25_DuePostEventuallyPosted ==
    \A p \in GoodIds :
        (posts[p].status = "approved" /\ posts[p].scheduledPostTime <= now)
        ~> (posts[p].status = "posted")

\* C26: with invocations one at a time, no platform accepts the same post
\* twice; once a publish attempt has ended with a platform having accepted
\* the post the post is posted, and a publish attempt is made only for a
\* post no platform has accepted yet.
C26_AtMostOnceInSequence ==
    [][\A p \in DOMAIN posts :
         /\ delivered'[p].instagram <= 1
         /\ delivered'[p].facebook <= 1
         /\ (delivered'[p].instagram + delivered'[p].facebook >= 1
               /\ inv'[1].pc \notin {"pubwrite", "sweep_write"})
            => posts'[p].status = "posted"
         /\ (inv[1].pc \in {"publish", "sweep_publish"} /\ inv[1].post = p
               /\ inv'[1] # inv[1] /\ configured)
            => /\ delivered[p] = [instagram |-> 0, facebook |-> 0]
               /\ posts[p].status = "approved"]_vars

\* C27: the caption text handed to the publisher, by an immediate publish
\* and by a posting run, is the one built from the caption and hashtags the
\* post has stored at that time, so from the edited ones after an Edit.
C27_PublishesEditedText ==
    [][\A i \in Slots :
         LET p == inv[i].post
         IN  (inv[i].pc \in {"publish", "sweep_publish"} /\ inv'[i] # inv[i]
                /\ configured)
             => inv'[i].sent = PostText(posts[p].caption, posts[p].hashtags)]_vars

\* C28: a post has postedAt and a platforms result stored exactly when its
\* status is posted, and a posted post has a result from at least one
\* platform.
C28_PostedFieldsIffPosted ==
    \A p \in DOMAIN posts :
        /\ (posts[p].postedAt # NullTime /\ posts[p].platforms # UnsetPlatforms)
           <=> posts[p].status = "posted"
        /\ posts[p].status = "posted"
           => \/ posts[p].platforms.instagram \notin {"null", "unset"}
              \/ posts[p].platforms.facebook \notin {"null", "unset"}

\* C29: whenever no auto-reply run is in progress, an interaction is
\* responded exactly when a platform accepted a reply to it, no interaction
\* has had more than one reply accepted, and a failed interaction has had
\* none.
C29_RespondedIffReplied ==
    (\A i \in Slots : areply[i].pc \in {"idle", "done"})
    => \A x \in DOMAIN interactions :
          /\ interactions[x].status = "responded" <=> replies[x] >= 1
          /\ replies[x] <= 1
          /\ interactions[x].status = "failed" => replies[x] = 0

\* C30: a call of waitForMediaReady makes at most maxAttempts status
\* checks and can always take its next step until it has ended; it returns
\* true only on a check that reports FINISHED, throws 'Media processing
\* failed' on the first check that reports ERROR, goes on after a rejected
\* status request, and throws 'Media processing timeout' exactly when
\* maxAttempts checks have gone by without FINISHED or ERROR.
C30_WaitForMediaReadyEnds ==
    LET seen == media.seen
        n == Len(seen)
        ended == {"FINISHED", "ERROR"}
    IN  /\ n <= media.maxAttempts
        /\ media.pc = "check" => media.i = n /\ ENABLED (WaitCheck \/ WaitTimeout)
        /\ \A k \in 1..n : seen[k] \in ended => k = n /\ media.pc = "done"
        /\ media.pc = "done" =>
              /\ media.result = "true" <=> n > 0 /\ seen[n] = "FINISHED"
              /\ media.result = "Media processing failed" <=> n > 0 /\ seen[n] = "ERROR"
              /\ media.result = "Media processing timeout" <=>
                    n = media.maxAttempts /\ \A k \in 1..n : seen[k] \notin ended

\* a call whose status request was rejected once went on checking and ended
\* with the timeout
C30_Witness ==
    /\ media.pc = "done"
    /\ media.result = "Media processing timeout"
    /\ media.maxAttempts >= 2
    /\ \E k \in 1..Len(media.seen) : media.seen[k] = "rejects"
    /\ \E k \in 1..Len(media.seen) : media.seen[k] = "IN_PROGRESS"

====
